---- MODULE Spec2Model ----
(***************************************************************************)
(* SSM patch-compliance collection pipeline.                               *)
(*                                                                         *)
(* Two dashboard variants of the per-(account, region) unit are modelled:  *)
(*   "final" : src/patch_compliance_final.py, fetch_account_region_data    *)
(*   "pc3"   : src/IAM_Users_with_Navigation.py, get_patch_compliance      *)
(*             (the third Patch_Compliance page, lines 2341-2523)          *)
(* together with the parallel aggregator (fetch_all_data / fetch_data) and *)
(* the batching loop of the Lambda reporters.                              *)
(*                                                                         *)
(* A paginated AWS listing is modelled as a sequence of items, one item    *)
(* per page, plus failAt: the number of the page request that raises       *)
(* (0: no request raises).                                                 *)
(***************************************************************************)
EXTENDS Integers, Sequences, FiniteSets, TLC

VARIABLES
    variant,      \* which dashboard page runs: "final" or "pc3"
    unit,         \* Spec: the local variables of one running unit
    account_ids,  \* AggSpec: the selected accounts (a sequence)
    regions,      \* AggSpec: the selected regions (a sequence)
    fut,          \* AggSpec: state of the future of every submitted unit
    result,       \* AggSpec: what a finished unit returned
    handled,      \* AggSpec: futures already yielded by as_completed
    all_inst,     \* AggSpec: aggregate accumulators of fetch_all_data
    all_grp,
    all_pat,
    all_err,
    done,         \* AggSpec: the completed-units counter
    aggPc,        \* AggSpec: position of fetch_all_data
    lam,          \* BatchSpec: the batching loop of the Lambda reporter
    unique_patches \* DedupSpec: display_df, the rows the Available Patches tab shows

vars == <<variant, unit, account_ids, regions, fut, result, handled,
          all_inst, all_grp, all_pat, all_err, done, aggPc, lam, unique_patches>>

(***************************************************************************)
(* Bounds of the model and constants of the program.                       *)
(***************************************************************************)
\* longest patch-state / compliance-summary listing
MaxStates == 2
\* largest patch count in a patch-state record, largest patch-group size
MaxCount == 1
\* longest patch-group listing
MaxGroups == 1
\* longest catalog listing
MaxPatches == 1
\* most managed instances handed to the Lambda batching loop
MaxManaged == 120
\* ThreadPoolExecutor(max_workers=10)
MaxWorkers == 10
\* batch_size = 50 of the Lambda reporters
BatchSize == 50

Variants == {"final", "pc3"}
IdOrder == <<"i1", "i2">>
InstanceIds == {IdOrder[i] : i \in 1..Len(IdOrder)}
LifecycleStates == {"running", "stopped", "terminated"}
GroupNames == {"g1"}
PatchIds == {"p1", "p2"}

\* Severity strings in the order Python compares them, smallest first
SeverityOrder == <<"Critical", "High", "Low", "Medium", "N/A">>

SeverityRank(sev) == CHOOSE i \in 1..Len(SeverityOrder) : SeverityOrder[i] = sev

\* the patches of the catalog as describe_available_patches returns them
PatchItems == {[id |-> "p1", severity |-> "Critical"], [id |-> "p2", severity |-> "Medium"]}
Accounts == <<"A", "B">>
Regions == <<"r1", "r2">>

\* the organization's accounts as get_all_accounts lists them
AllAccounts == <<[Id |-> "A", Name |-> "Alpha"], [Id |-> "B", Name |-> "Beta"]>>

\* the name of the first listed account with this id, or the id itself
GetAccountNameById(account_id, accounts_list) ==
    LET hits == {i \in 1..Len(accounts_list) : accounts_list[i].Id = account_id}
    IN  IF hits = {} THEN account_id
        ELSE accounts_list[CHOOSE i \in hits : \A j \in hits : i <= j].Name

\* aname of a unit
AccountName(aid) == GetAccountNameById(aid, AllAccounts)
Counts == 0..MaxCount

Max(a, b) == IF a >= b THEN a ELSE b
Min(a, b) == IF a <= b THEN a ELSE b

\* all sequences over S of length at most n
SeqsUpTo(S, n) == UNION {[1..k -> S] : k \in 0..n}

\* the elements of the sequence order that are in S, in that order
SortedSeq(order, S) == SelectSeq(order, LAMBDA x : x \in S)

(***************************************************************************)
(* Paginated listing: items of the pages fetched before the failing        *)
(* request, and whether a request raised.  An empty listing still costs    *)
(* one request.                                                            *)
(***************************************************************************)
Raises(items, failAt) == failAt # 0 /\ failAt <= Max(Len(items), 1)

Fetched(items, failAt) ==
    IF Raises(items, failAt) THEN SubSeq(items, 1, failAt - 1) ELSE items

FailPoints(items) == 0..Max(Len(items), 1)

Listings(S, n) ==
    {l \in [items : SeqsUpTo(S, n), failAt : 0..Max(n, 1)] : l.failAt \in FailPoints(l.items)}

(***************************************************************************)
(* Records of the unit.                                                    *)
(***************************************************************************)
Call(api, ids) == [api |-> api, ids |-> ids]

\* a warning that names no account and no region
ErrUntagged(L, what) == [acct |-> "?", rgn |-> "?", what |-> what]

Err(L, what) == [acct |-> L.acct, rgn |-> L.rgn, what |-> what]

\* one row of the instance table; counted says whether the row carries the
\* Installed/Missing/Failed keys
InstanceRow(L, e, status, counted, installed, missing, failed, managed) ==
    [acct |-> L.acct, rgn |-> L.rgn, id |-> e.id, status |-> status,
     counted |-> counted, installed |-> installed, missing |-> missing,
     failed |-> failed, state |-> e.state, managed |-> managed]

(***************************************************************************)
(* instance_map: a Python dict keyed by instance id, kept as the sequence  *)
(* of its entries in insertion order.                                      *)
(***************************************************************************)
MapHas(m, id) == \E i \in 1..Len(m) : m[i].id = id

MapGet(m, id) == m[CHOOSE i \in 1..Len(m) : m[i].id = id]

MapPut(m, e) ==
    IF MapHas(m, e.id)
    THEN [i \in 1..Len(m) |-> IF m[i].id = e.id THEN e ELSE m[i]]
    ELSE Append(m, e)

MapKeys(m) == {m[i].id : i \in 1..Len(m)}

SetManaged(m, id) ==
    [i \in 1..Len(m) |-> IF m[i].id = id THEN [m[i] EXCEPT !.managed = TRUE] ELSE m[i]]

SetProcessed(m, id) ==
    [i \in 1..Len(m) |-> IF m[i].id = id THEN [m[i] EXCEPT !.processed = TRUE] ELSE m[i]]

InitUnit(a, r) ==
    [acct |-> a, rgn |-> r, pc |-> "auth",
     instance_map |-> <<>>, managed_instance_ids |-> <<>>,
     instances |-> <<>>, groups |-> <<>>, patches |-> <<>>, errors |-> <<>>,
     calls |-> <<>>,
     inventory_seen |-> {}, registry_seen |-> {}, states_seen |-> {},
     states_fetched |-> <<>>,
     groups_seen |-> <<>>, failed_fetches |-> {}]

(***************************************************************************)
(* get_ssm / get_ec2 and the authentication check.                         *)
(***************************************************************************)
\* what getting a client can do: return it, return None because the role was
\* refused, or raise inside boto3.client
ClientOutcomes == {"ok", "refused", "raises"}

\* an authentication check that warns and goes on
GetClientsNoReturn(v, L, ssm, ec2) ==
    LET L1 == [L EXCEPT !.calls = @ \o <<Call("assume_role", <<>>), Call("assume_role", <<>>)>>]
    IN  IF ssm # "ok" \/ ec2 # "ok"
        THEN [L1 EXCEPT !.errors = Append(@, Err(L, "auth")), !.pc = "ec2"]
        ELSE [L1 EXCEPT !.pc = "ec2"]

\* final: get_ssm / get_ec2 turn every exception into None.  pc3:
\* get_ssm_client / get_ec2_client let boto3.client raise, and the outer
\* handler of get_patch_compliance ends the unit with an "Unexpected error".
GetClients(v, L, ssm, ec2) ==
    LET one == [L EXCEPT !.calls = Append(@, Call("assume_role", <<>>))]
        two == [one EXCEPT !.calls = Append(@, Call("assume_role", <<>>))]
    IN  IF v = "pc3" /\ ssm = "raises"
        THEN [one EXCEPT !.errors = Append(@, Err(L, "unexpected")), !.pc = "done"]
        ELSE IF v = "pc3" /\ ec2 = "raises"
        THEN [two EXCEPT !.errors = Append(@, Err(L, "unexpected")), !.pc = "done"]
        ELSE IF ssm # "ok" \/ ec2 # "ok"
        THEN [two EXCEPT !.errors = Append(@, Err(L, "auth")), !.pc = "done"]
        ELSE [two EXCEPT !.pc = "ec2"]

(***************************************************************************)
(* Get all EC2 instances.  pc3 passes the instance-state-name filter, the  *)
(* final page passes none.                                                 *)
(***************************************************************************)
StateFilter == {"running", "stopped"}

DescribeInstances(v, items) ==
    IF v = "pc3" THEN SelectSeq(items, LAMBDA x : x.state \in StateFilter) ELSE items

RECURSIVE PutAll(_, _, _)
PutAll(m, items, i) ==
    IF i > Len(items) THEN m
    ELSE PutAll(MapPut(m, [id |-> items[i].id, state |-> items[i].state,
                           managed |-> FALSE, processed |-> FALSE]), items, i + 1)

\* an inventory stage that hands over to the patch-state stage, past the
\* registry
GetAllEc2InstancesThenPatch(v, L, resp) ==
    LET seen == Fetched(DescribeInstances(v, resp.items), resp.failAt)
    IN  [L EXCEPT !.instance_map = PutAll(<<>>, seen, 1),
                  !.inventory_seen = {seen[i].id : i \in 1..Len(seen)},
                  !.calls = Append(@, Call("describe_instances", <<>>)),
                  !.pc = "patch"]

GetAllEc2Instances(v, L, resp) ==
    LET visible == DescribeInstances(v, resp.items)
        seen == Fetched(visible, resp.failAt)
        bad == Raises(visible, resp.failAt)
    IN  [L EXCEPT !.instance_map = PutAll(<<>>, seen, 1),
                  !.inventory_seen = {seen[i].id : i \in 1..Len(seen)},
                  !.calls = Append(@, Call("describe_instances", <<>>)),
                  !.errors = IF bad THEN Append(@, Err(L, "ec2")) ELSE @,
                  !.failed_fetches = IF bad THEN @ \cup {"ec2"} ELSE @,
                  !.pc = "ssm"]

(***************************************************************************)
(* Get the managed instances from describe_instance_information.           *)
(***************************************************************************)
RECURSIVE MarkManaged(_, _, _)
MarkManaged(m, ids, i) ==
    IF i > Len(ids) THEN m
    ELSE MarkManaged(IF MapHas(m, ids[i]) THEN SetManaged(m, ids[i]) ELSE m, ids, i + 1)

GetManagedInstances(v, L, resp) ==
    LET seen == Fetched(resp.items, resp.failAt)
        bad == Raises(resp.items, resp.failAt)
    IN  [L EXCEPT !.instance_map = MarkManaged(@, seen, 1),
                  !.managed_instance_ids = IF v = "pc3" THEN @ \o seen ELSE @,
                  !.registry_seen = {seen[i] : i \in 1..Len(seen)},
                  !.calls = Append(@, Call("describe_instance_information", <<>>)),
                  !.errors = IF bad THEN Append(@, Err(L, "ssm")) ELSE @,
                  !.failed_fetches = IF bad THEN @ \cup {"ssm"} ELSE @,
                  !.pc = "patch"]

(***************************************************************************)
(* pc3: patch states of the managed instances, classified by their counts. *)
(***************************************************************************)
Classify(failed, missing) ==
    IF failed > 0 THEN "NON_COMPLIANT_FAILED"
    ELSE IF missing > 0 THEN "NON_COMPLIANT_MISSING"
    ELSE "COMPLIANT"

\* a patch-state loop without the "instance_id not in instance_map" test
RECURSIVE AddPatchStatesKeepOrphans(_, _, _)
AddPatchStatesKeepOrphans(L, states, i) ==
    IF i > Len(states) THEN L
    ELSE LET s == states[i]
             e == IF MapHas(L.instance_map, s.id) THEN MapGet(L.instance_map, s.id)
                  ELSE [id |-> s.id, state |-> "unknown"]
         IN  AddPatchStatesKeepOrphans(
                [L EXCEPT !.instances = Append(@,
                              InstanceRow(L, e, Classify(s.failed, s.missing), TRUE,
                                          s.installed, s.missing, s.failed, TRUE)),
                          !.instance_map = SetManaged(@, s.id)],
                states, i + 1)

RECURSIVE AddPatchStates(_, _, _)
AddPatchStates(L, states, i) ==
    IF i > Len(states) THEN L
    ELSE LET s == states[i]
         IN  IF ~MapHas(L.instance_map, s.id)
             THEN AddPatchStates(L, states, i + 1)
             ELSE AddPatchStates(
                    [L EXCEPT !.instances = Append(@,
                                  InstanceRow(L, MapGet(L.instance_map, s.id),
                                              Classify(s.failed, s.missing), TRUE,
                                              s.installed, s.missing, s.failed, TRUE)),
                              !.instance_map = SetManaged(@, s.id)],
                    states, i + 1)

GetPatchStates(L, resp) ==
    IF L.managed_instance_ids = <<>>
    THEN [L EXCEPT !.pc = "unmanaged"]
    ELSE LET seen == Fetched(resp.items, resp.failAt)
             bad == Raises(resp.items, resp.failAt)
             L1 == AddPatchStates(L, seen, 1)
         IN  [L1 EXCEPT !.states_seen = {seen[i].id : i \in 1..Len(seen)},
                        !.states_fetched = seen,
                        !.calls = Append(@, Call("describe_instance_patch_states", <<>>)),
                        !.errors = IF bad THEN Append(@, Err(L, "patch_states")) ELSE @,
                        !.failed_fetches = IF bad THEN @ \cup {"patch_states"} ELSE @,
                        !.pc = "unmanaged"]

(***************************************************************************)
(* final: compliance summaries give the rows, then one                     *)
(* describe_instance_patch_states call per processed instance gives the    *)
(* counts of the first row of that instance.                               *)
(***************************************************************************)
RECURSIVE AddSummaries(_, _, _)
AddSummaries(L, items, i) ==
    IF i > Len(items) THEN L
    ELSE LET s == items[i]
         IN  IF ~MapHas(L.instance_map, s.id)
             THEN AddSummaries(L, items, i + 1)
             ELSE AddSummaries(
                    [L EXCEPT !.instances = Append(@,
                                  InstanceRow(L, MapGet(L.instance_map, s.id), s.status,
                                              FALSE, 0, 0, 0,
                                              MapGet(L.instance_map, s.id).managed)),
                              !.instance_map = SetProcessed(@, s.id)],
                    items, i + 1)

GetComplianceSummaries(L, resp) ==
    LET seen == Fetched(resp.items, resp.failAt)
        bad == Raises(resp.items, resp.failAt)
        L1 == AddSummaries(L, seen, 1)
    IN  [L1 EXCEPT !.states_seen = {seen[i].id : i \in 1..Len(seen)},
                        !.states_fetched = seen,
                   !.calls = Append(@, Call("list_resource_compliance_summaries", <<>>)),
                   !.errors = IF bad THEN Append(@, Err(L, "summaries")) ELSE @,
                   !.failed_fetches = IF bad THEN @ \cup {"summaries"} ELSE @,
                   !.pc = "details"]

\* position of the first row of the instance, 0 when there is none
FirstRow(rows, id) ==
    IF \E i \in 1..Len(rows) : rows[i].id = id
    THEN CHOOSE i \in 1..Len(rows) :
            rows[i].id = id /\ \A j \in 1..(i - 1) : rows[j].id # id
    ELSE 0

SetCounts(rows, id, st) ==
    LET k == FirstRow(rows, id)
    IN  [i \in 1..Len(rows) |->
            IF i = k
            THEN [rows[i] EXCEPT !.counted = TRUE, !.installed = st.installed,
                                 !.missing = st.missing, !.failed = st.failed]
            ELSE rows[i]]

RECURSIVE AddDetails(_, _, _)
AddDetails(L, detail, i) ==
    IF i > Len(L.instance_map) THEN L
    ELSE LET e == L.instance_map[i]
         IN  IF ~e.processed
             THEN AddDetails(L, detail, i + 1)
             ELSE LET L1 == [L EXCEPT !.calls = Append(@,
                                 Call("describe_instance_patch_states", <<e.id>>))]
                      d == detail[e.id]
                  IN  IF d.kind = "state"
                      THEN AddDetails([L1 EXCEPT !.instances = SetCounts(@, e.id, d)],
                                      detail, i + 1)
                      ELSE AddDetails(
                             [L1 EXCEPT !.failed_fetches =
                                 IF d.kind = "raise" THEN @ \cup {"details"} ELSE @],
                             detail, i + 1)

GetPatchDetails(L, detail) == [AddDetails(L, detail, 1) EXCEPT !.pc = "unmanaged"]

(***************************************************************************)
(* Add the unmanaged instances.                                            *)
(***************************************************************************)
IsLeftUnmanaged(v, e) ==
    IF v = "final" THEN ~e.processed /\ ~e.managed ELSE ~e.managed

RECURSIVE AppendUnmanaged(_, _, _)
AppendUnmanaged(v, L, i) ==
    IF i > Len(L.instance_map) THEN L
    ELSE LET e == L.instance_map[i]
         IN  IF IsLeftUnmanaged(v, e)
             THEN AppendUnmanaged(v,
                    [L EXCEPT !.instances = Append(@,
                        InstanceRow(L, e, "UNMANAGED", TRUE, 0, 0, 0, FALSE))],
                    i + 1)
             ELSE AppendUnmanaged(v, L, i + 1)

AddUnmanagedInstances(v, L) == [AppendUnmanaged(v, L, 1) EXCEPT !.pc = "groups"]

(***************************************************************************)
(* Patch groups: one describe_patch_group_state call per mapping; a group  *)
(* whose call raises, or whose instance count is 0, is left out.  pc3      *)
(* fetches the groups only when the instance table is not empty.           *)
(***************************************************************************)
\* a group loop without the instances_count > 0 test
RECURSIVE AddGroupsUnfiltered(_, _, _)
AddGroupsUnfiltered(L, items, i) ==
    IF i > Len(items) THEN L
    ELSE LET g == items[i]
             L1 == [L EXCEPT !.calls = Append(@, Call("describe_patch_group_state", <<g.name>>))]
         IN  IF ~g.raises
             THEN AddGroupsUnfiltered([L1 EXCEPT !.groups = Append(@,
                                [acct |-> L.acct, rgn |-> L.rgn, name |-> g.name,
                                 count |-> g.count])],
                            items, i + 1)
             ELSE AddGroupsUnfiltered(L1, items, i + 1)

\* a group loop that gives up at the first group whose state call raises
RECURSIVE AddGroupsAbort(_, _, _)
AddGroupsAbort(L, items, i) ==
    IF i > Len(items) THEN L
    ELSE LET g == items[i]
             L1 == [L EXCEPT !.calls = Append(@, Call("describe_patch_group_state", <<g.name>>))]
         IN  IF g.raises THEN L1
             ELSE IF g.count > 0
             THEN AddGroupsAbort([L1 EXCEPT !.groups = Append(@,
                                [acct |-> L.acct, rgn |-> L.rgn, name |-> g.name,
                                 count |-> g.count])],
                            items, i + 1)
             ELSE AddGroupsAbort(L1, items, i + 1)

RECURSIVE AddGroups(_, _, _)
AddGroups(L, items, i) ==
    IF i > Len(items) THEN L
    ELSE LET g == items[i]
             L1 == [L EXCEPT !.calls = Append(@, Call("describe_patch_group_state", <<g.name>>))]
         IN  IF ~g.raises /\ g.count > 0
             THEN AddGroups([L1 EXCEPT !.groups = Append(@,
                                [acct |-> L.acct, rgn |-> L.rgn, name |-> g.name,
                                 count |-> g.count])],
                            items, i + 1)
             ELSE AddGroups(L1, items, i + 1)

GetPatchGroups(v, L, resp) ==
    IF v = "pc3" /\ L.instances = <<>>
    THEN [L EXCEPT !.pc = "patches"]
    ELSE LET seen == Fetched(resp.items, resp.failAt)
             bad == Raises(resp.items, resp.failAt)
             L1 == AddGroups([L EXCEPT !.calls = Append(@, Call("describe_patch_groups", <<>>))],
                             seen, 1)
         IN  [L1 EXCEPT !.groups_seen = seen,
                        !.errors = IF bad THEN Append(@, Err(L, "groups")) ELSE @,
                        !.failed_fetches = IF bad THEN @ \cup {"groups"} ELSE @,
                        !.pc = "patches"]

(***************************************************************************)
(* Available patches.                                                      *)
(***************************************************************************)
GetAvailablePatches(L, resp) ==
    LET seen == Fetched(resp.items, resp.failAt)
        bad == Raises(resp.items, resp.failAt)
    IN  [L EXCEPT !.patches = @ \o [i \in 1..Len(seen) |->
                                      [acct |-> L.acct, rgn |-> L.rgn,
                                       pid |-> seen[i].id, sev |-> seen[i].severity]],
                  !.calls = Append(@, Call("describe_available_patches", <<>>)),
                  !.errors = IF bad THEN Append(@, Err(L, "patches")) ELSE @,
                  !.failed_fetches = IF bad THEN @ \cup {"patches"} ELSE @,
                  !.pc = "done"]

(***************************************************************************)
(* What the AWS APIs may answer.                                           *)
(***************************************************************************)
Ec2Listings ==
    UNION {UNION {LET ids == SortedSeq(IdOrder, S)
                      items == [i \in 1..Len(ids) |-> [id |-> ids[i], state |-> f[ids[i]]]]
                  IN  {[items |-> items, failAt |-> k] : k \in FailPoints(items)}
                  : f \in [S -> LifecycleStates]}
           : S \in SUBSET InstanceIds}

RegistryListings ==
    UNION {LET ids == SortedSeq(IdOrder, S)
           IN  {[items |-> ids, failAt |-> k] : k \in FailPoints(ids)}
           : S \in SUBSET InstanceIds}

PatchStateRecords ==
    [id : InstanceIds, installed : Counts, missing : Counts, failed : Counts]

PatchStateListings == Listings(PatchStateRecords, MaxStates)

SummaryStatuses == {"COMPLIANT", "NON_COMPLIANT"}

SummaryListings == Listings([id : InstanceIds, status : SummaryStatuses], MaxStates)

DetailOutcomes ==
    {[kind |-> k, installed |-> 0, missing |-> 0, failed |-> 0] : k \in {"raise", "empty"}}
    \cup [kind : {"state"}, installed : Counts, missing : Counts, failed : Counts]

DetailResponses == [InstanceIds -> DetailOutcomes]

GroupListings == Listings([name : GroupNames, raises : BOOLEAN, count : Counts], MaxGroups)

PatchListings == Listings(PatchItems, MaxPatches)

(***************************************************************************)
(* Spec: one unit, stage by stage.                                         *)
(***************************************************************************)
aggVars == <<account_ids, regions, fut, result, handled,
             all_inst, all_grp, all_pat, all_err, done, aggPc, unique_patches>>

IdleLam == [n |-> 0, i |-> 0, calls |-> <<>>, pc |-> "idle"]

AggIdle ==
    /\ account_ids = <<>>
    /\ regions = <<>>
    /\ fut = <<>>
    /\ result = <<>>
    /\ handled = {}
    /\ all_inst = <<>>
    /\ all_grp = <<>>
    /\ all_pat = <<>>
    /\ all_err = <<>>
    /\ done = 0
    /\ aggPc = "idle"
    /\ unique_patches = <<>>

Init ==
    /\ variant \in Variants
    /\ unit = InitUnit(AccountName(Accounts[1]), Regions[1])
    /\ AggIdle
    /\ lam = IdleLam

Authenticate ==
    /\ unit.pc = "auth"
    /\ \E ssm \in ClientOutcomes, ec2 \in ClientOutcomes :
          unit' = GetClients(variant, unit, ssm, ec2)
    /\ UNCHANGED <<variant, aggVars, lam>>

FetchInstances ==
    /\ unit.pc = "ec2"
    /\ \E resp \in Ec2Listings : unit' = GetAllEc2Instances(variant, unit, resp)
    /\ UNCHANGED <<variant, aggVars, lam>>

FetchManaged ==
    /\ unit.pc = "ssm"
    /\ \E resp \in RegistryListings : unit' = GetManagedInstances(variant, unit, resp)
    /\ UNCHANGED <<variant, aggVars, lam>>

FetchPatchStates ==
    /\ unit.pc = "patch"
    /\ variant = "pc3"
    /\ \E resp \in PatchStateListings : unit' = GetPatchStates(unit, resp)
    /\ UNCHANGED <<variant, aggVars, lam>>

FetchSummaries ==
    /\ unit.pc = "patch"
    /\ variant = "final"
    /\ \E resp \in SummaryListings : unit' = GetComplianceSummaries(unit, resp)
    /\ UNCHANGED <<variant, aggVars, lam>>

FetchDetails ==
    /\ unit.pc = "details"
    /\ \E detail \in DetailResponses : unit' = GetPatchDetails(unit, detail)
    /\ UNCHANGED <<variant, aggVars, lam>>

AddUnmanaged ==
    /\ unit.pc = "unmanaged"
    /\ unit' = AddUnmanagedInstances(variant, unit)
    /\ UNCHANGED <<variant, aggVars, lam>>

FetchGroups ==
    /\ unit.pc = "groups"
    /\ \E resp \in GroupListings : unit' = GetPatchGroups(variant, unit, resp)
    /\ UNCHANGED <<variant, aggVars, lam>>

FetchPatches ==
    /\ unit.pc = "patches"
    /\ \E resp \in PatchListings : unit' = GetAvailablePatches(unit, resp)
    /\ UNCHANGED <<variant, aggVars, lam>>

Next ==
    \/ Authenticate
    \/ FetchInstances
    \/ FetchManaged
    \/ FetchPatchStates
    \/ FetchSummaries
    \/ FetchDetails
    \/ AddUnmanaged
    \/ FetchGroups
    \/ FetchPatches

Spec == Init /\ [][Next]_vars

(***************************************************************************)
(* The whole unit as one function of what the APIs answer.                 *)
(***************************************************************************)
FetchAccountRegionData(v, a, r, e) ==
    LET L0 == GetClients(v, InitUnit(a, r), e.ssmClient, e.ec2Client)
        L1 == GetAllEc2Instances(v, L0, e.ec2)
        L2 == GetManagedInstances(v, L1, e.ssm)
        L3 == IF v = "final"
              THEN GetPatchDetails(GetComplianceSummaries(L2, e.summaries), e.detail)
              ELSE GetPatchStates(L2, e.states)
        L4 == AddUnmanagedInstances(v, L3)
        L5 == GetPatchGroups(v, L4, e.groups)
    IN  IF L0.pc = "done" THEN L0 ELSE GetAvailablePatches(L5, e.patches)

(***************************************************************************)
(* AggSpec: fetch_all_data / fetch_data over the selected accounts and     *)
(* regions.  A unit shares nothing with the others, so its run is one      *)
(* step.                                                                   *)
(***************************************************************************)
Whole(items) == [items |-> items, failAt |-> 0]

AggEnvs ==
    [ssmClient : {"ok", "refused"}, ec2Client : {"ok"},
     ec2 : {Whole(<<[id |-> "i1", state |-> "running"]>>)},
     ssm : {Whole(<<>>), Whole(<<"i1">>)},
     states : {Whole(<<>>),
               Whole(<<[id |-> "i1", installed |-> 1, missing |-> 0, failed |-> 0]>>)},
     summaries : {Whole(<<>>), Whole(<<[id |-> "i1", status |-> "COMPLIANT"]>>)},
     detail : {[i \in InstanceIds |->
                  [kind |-> "state", installed |-> 1, missing |-> 0, failed |-> 0]]},
     groups : {Whole(<<[name |-> "g1", raises |-> FALSE, count |-> 1]>>),
               Whole(<<[name |-> "g1", raises |-> FALSE, count |-> 0]>>)},
     patches : {Whole(<<[id |-> "p1", severity |-> "Critical"]>>)}]

SubLists(order) == {SortedSeq(order, S) : S \in SUBSET {order[i] : i \in 1..Len(order)}}

Units == {<<account_ids[i], regions[j]>> : i \in 1..Len(account_ids), j \in 1..Len(regions)}

\* the k-th unit the two loops submit
UnitAt(k) ==
    <<account_ids[((k - 1) \div Len(regions)) + 1], regions[((k - 1) % Len(regions)) + 1]>>

Submitted == {k \in 1..(Len(account_ids) * Len(regions)) : fut[UnitAt(k)] # "none"}

AllUnits == {<<Accounts[i], Regions[j]>> : i \in 1..Len(Accounts), j \in 1..Len(Regions)}

Running == {u \in Units : fut[u] \in {"running", "blocked"}}

AggInit ==
    /\ variant \in Variants
    /\ unit = InitUnit(AccountName(Accounts[1]), Regions[1])
    /\ account_ids \in SubLists(Accounts)
    /\ regions \in SubLists(Regions)
    /\ fut = [u \in AllUnits |-> "none"]
    /\ result = [u \in AllUnits |-> InitUnit(AccountName(u[1]), u[2])]
    /\ handled = {}
    /\ all_inst = <<>>
    /\ all_grp = <<>>
    /\ all_pat = <<>>
    /\ all_err = <<>>
    /\ done = 0
    /\ aggPc \in {"clicked", "refresh"}
    /\ lam = IdleLam
    /\ unique_patches = <<>>

\* the Fetch handler refuses an empty selection and does not call
\* fetch_all_data
RejectEmpty ==
    /\ aggPc = "clicked"
    /\ account_ids = <<>> \/ regions = <<>>
    /\ aggPc' = "rejected"
    /\ UNCHANGED <<variant, unit, account_ids, regions, fut, result, handled,
                   all_inst, all_grp, all_pat, all_err, done, lam, unique_patches>>

\* fetch_all_data is entered: by the Fetch handler with a non-empty
\* selection, by the Refresh handler with whatever is selected.  With no
\* pair to submit the submission loop is over at once.
FetchAllData ==
    /\ \/ aggPc = "clicked" /\ account_ids # <<>> /\ regions # <<>>
       \/ aggPc = "refresh"
    /\ aggPc' = IF Len(account_ids) * Len(regions) = 0 THEN "collect" ELSE "submit"
    /\ UNCHANGED <<variant, unit, account_ids, regions, fut, result, handled,
                   all_inst, all_grp, all_pat, all_err, done, lam, unique_patches>>

\* a submission loop that ends after its first pair
SubmitFirstOnly ==
    /\ aggPc = "submit"
    /\ fut' = [fut EXCEPT ![UnitAt(1)] = "queued"]
    /\ aggPc' = "collect"
    /\ UNCHANGED <<variant, unit, account_ids, regions, result, handled,
                   all_inst, all_grp, all_pat, all_err, done, lam, unique_patches>>

\* exe.submit of the next pair; units submitted earlier may already run
SubmitUnit ==
    LET k == Cardinality(Submitted) + 1
        total == Len(account_ids) * Len(regions)
    IN  /\ aggPc = "submit"
        /\ k <= total
        /\ fut' = [fut EXCEPT ![UnitAt(k)] = "queued"]
        /\ aggPc' = IF k = total THEN "collect" ELSE "submit"
        /\ UNCHANGED <<variant, unit, account_ids, regions, result, handled,
                       all_inst, all_grp, all_pat, all_err, done, lam, unique_patches>>

\* a free worker of the pool takes a queued unit
StartUnit(u) ==
    /\ fut[u] = "queued"
    /\ Cardinality(Running) < MaxWorkers
    /\ fut' = [fut EXCEPT ![u] = "running"]
    /\ UNCHANGED <<variant, unit, account_ids, regions, result, handled,
                   all_inst, all_grp, all_pat, all_err, done, aggPc, lam, unique_patches>>

\* the unit returns its four lists
FinishUnit(u) ==
    /\ fut[u] = "running"
    /\ \E e \in AggEnvs :
          result' = [result EXCEPT ![u] = FetchAccountRegionData(variant, AccountName(u[1]), u[2], e)]
    /\ fut' = [fut EXCEPT ![u] = "finished"]
    /\ UNCHANGED <<variant, unit, account_ids, regions, handled,
                   all_inst, all_grp, all_pat, all_err, done, aggPc, lam, unique_patches>>

\* the task ends with an exception that f.result() re-raises
RaiseUnit(u) ==
    /\ fut[u] = "running"
    /\ fut' = [fut EXCEPT ![u] = "raised"]
    /\ UNCHANGED <<variant, unit, account_ids, regions, result, handled,
                   all_inst, all_grp, all_pat, all_err, done, aggPc, lam, unique_patches>>

\* a call of the unit never returns
BlockUnit(u) ==
    /\ fut[u] = "running"
    /\ fut' = [fut EXCEPT ![u] = "blocked"]
    /\ UNCHANGED <<variant, unit, account_ids, regions, result, handled,
                   all_inst, all_grp, all_pat, all_err, done, aggPc, lam, unique_patches>>

\* a collector that keeps only the last unit's list
ExtendOverwrite(acc, lst) == lst

\* list.extend
Extend(acc, lst) == acc \o lst

\* an except branch that names no unit
ExceptionEntryUntagged(u) == [acct |-> "?", rgn |-> "?", what |-> "exception"]

\* the error string of the except branch: account name, region, message
ExceptionEntry(u) == [acct |-> AccountName(u[1]), rgn |-> u[2], what |-> "exception"]

\* a completion loop that drains every ended unit in one step
CollectEnded(u) ==
    LET ended == {w \in Units \ handled : fut[w] \in {"finished", "raised"}}
    IN  /\ aggPc = "collect"
        /\ u \in ended
        /\ handled' = handled \cup ended
        /\ done' = done + Cardinality(ended)
        /\ all_inst' = all_inst \o result[u].instances
        /\ all_grp' = all_grp \o result[u].groups
        /\ all_pat' = all_pat \o result[u].patches
        /\ all_err' = all_err \o result[u].errors
        /\ UNCHANGED <<variant, unit, account_ids, regions, fut, result, aggPc, lam,
                       unique_patches>>

\* a completion loop that counts a unit only when it returned a result
CollectCountingResults(u) ==
    /\ aggPc = "collect"
    /\ u \in Units \ handled
    /\ fut[u] \in {"finished", "raised"}
    /\ handled' = handled \cup {u}
    /\ IF fut[u] = "finished"
       THEN /\ done' = done + 1
            /\ all_inst' = all_inst \o result[u].instances
            /\ all_grp' = all_grp \o result[u].groups
            /\ all_pat' = all_pat \o result[u].patches
            /\ all_err' = all_err \o result[u].errors
       ELSE /\ all_err' = Append(all_err, [acct |-> AccountName(u[1]), rgn |-> u[2], what |-> "exception"])
            /\ UNCHANGED <<done, all_inst, all_grp, all_pat>>
    /\ UNCHANGED <<variant, unit, account_ids, regions, fut, result, aggPc, lam,
                   unique_patches>>

\* one iteration of the as_completed loop
Collect(u) ==
    /\ aggPc = "collect"
    /\ u \in Units \ handled
    /\ fut[u] \in {"finished", "raised"}
    /\ handled' = handled \cup {u}
    /\ done' = done + 1
    /\ IF fut[u] = "finished"
       THEN /\ all_inst' = Extend(all_inst, result[u].instances)
            /\ all_grp' = Extend(all_grp, result[u].groups)
            /\ all_pat' = Extend(all_pat, result[u].patches)
            /\ all_err' = Extend(all_err, result[u].errors)
       ELSE /\ all_err' = Append(all_err, ExceptionEntry(u))
            /\ UNCHANGED <<all_inst, all_grp, all_pat>>
    /\ UNCHANGED <<variant, unit, account_ids, regions, fut, result, aggPc, lam, unique_patches>>

\* as_completed is exhausted, the pool shuts down, fetch_all_data returns
Return ==
    /\ aggPc = "collect"
    /\ handled = Units
    /\ aggPc' = "returned"
    /\ UNCHANGED <<variant, unit, account_ids, regions, fut, result, handled,
                   all_inst, all_grp, all_pat, all_err, done, lam, unique_patches>>

AggNext ==
    \/ RejectEmpty
    \/ FetchAllData
    \/ SubmitUnit
    \/ \E u \in AllUnits : StartUnit(u)
    \/ \E u \in AllUnits : FinishUnit(u)
    \/ \E u \in AllUnits : RaiseUnit(u)
    \/ \E u \in AllUnits : BlockUnit(u)
    \/ \E u \in AllUnits : Collect(u)
    \/ Return

AggSpec == AggInit /\ [][AggNext]_vars

\* every thread of the pool and the collecting thread keep running
LiveSpec == AggSpec /\ WF_vars(AggNext)

(***************************************************************************)
(* BatchSpec: the patch-state loop of the Lambda reporters.                *)
(* final_corrected get_patch_compliance_data receives the managed          *)
(* instances; with none it returns at once, otherwise it creates the       *)
(* client inside the outer try, whose handler returns the zero summary     *)
(* before any call.  completely_corrected                                  *)
(* get_detailed_noncompliance_counts_from_patch_states creates the client  *)
(* first, then lists the registry itself and keeps the Online instances:   *)
(* a listing that raises returns the empty counts with the identifiers     *)
(* gathered so far and no call, an empty list returns the empty counts.    *)
(* In both, lam.managed is queried in slices of batch_size; a batch that   *)
(* raises is skipped and the loop goes on.                                 *)
(***************************************************************************)
ManagedInstances(n) == [k \in 1..n |-> k]

\* managed_instances[i:i+batch_size]
Batch(managed, i) == SubSeq(managed, i + 1, Min(i + BatchSize, Len(managed)))

\* describe_instance_information of the region: other instances that are
\* not Online, then n Online instances
RegistryItems(n, other) ==
    [k \in 1..(other + n) |->
        IF k <= other THEN [id |-> n + k, ping |-> "ConnectionLost"]
        ELSE [id |-> k - other, ping |-> "Online"]]

\* the identifiers with PingStatus Online among the pages fetched
OnlineIds(listing) ==
    LET seen == SelectSeq(Fetched(listing.items, listing.failAt),
                          LAMBDA x : x.ping = "Online")
    IN  [k \in 1..Len(seen) |-> seen[k].id]

BatchRegistries ==
    UNION {[items : {RegistryItems(n, other)}, failAt : FailPoints(RegistryItems(n, other))] :
               n \in 0..MaxManaged, other \in 0..1}

BatchInit ==
    /\ variant = "final"
    /\ unit = InitUnit(AccountName(Accounts[1]), Regions[1])
    /\ AggIdle
    /\ \/ \E n \in 0..MaxManaged :
             lam = [reporter |-> "final_corrected", registry |-> Whole(<<>>),
                    managed |-> ManagedInstances(n), n |-> n, i |-> 0, calls |-> <<>>,
                    pc |-> "start", client |-> "unset", listed |-> "unset"]
       \/ \E reg \in BatchRegistries :
             lam = [reporter |-> "completely_corrected", registry |-> reg,
                    managed |-> <<>>, n |-> 0, i |-> 0, calls |-> <<>>,
                    pc |-> "start", client |-> "unset", listed |-> "unset"]

\* final_corrected: `if not managed_instances: return`, then
\* ssm_client = session.client('ssm') inside the outer try
BatchEnter ==
    /\ lam.pc = "start"
    /\ lam.reporter = "final_corrected"
    /\ \E c \in {"ok", "raises"} :
          lam' = IF lam.n = 0 THEN [lam EXCEPT !.pc = "done"]
                 ELSE IF c = "raises" THEN [lam EXCEPT !.client = c, !.pc = "done"]
                 ELSE [lam EXCEPT !.client = c, !.pc = "loop"]
    /\ UNCHANGED <<variant, unit, aggVars>>

\* completely_corrected: ssm_client = session.client('ssm') inside the outer
\* try, then the registry listing in its own try, then
\* `if not managed_instances: return`
ListManagedInstances ==
    /\ lam.pc = "start"
    /\ lam.reporter = "completely_corrected"
    /\ \E c \in {"ok", "raises"} :
          LET ids == OnlineIds(lam.registry)
              held == [lam EXCEPT !.client = c, !.managed = ids, !.n = Len(ids)]
          IN  lam' = IF c = "raises" THEN [lam EXCEPT !.client = c, !.pc = "done"]
                     ELSE IF Raises(lam.registry.items, lam.registry.failAt)
                          THEN [held EXCEPT !.listed = "raises", !.pc = "done"]
                     ELSE IF ids = <<>>
                          THEN [held EXCEPT !.listed = "ok", !.pc = "done"]
                     ELSE [held EXCEPT !.listed = "ok", !.pc = "loop"]
    /\ UNCHANGED <<variant, unit, aggVars>>

\* describe_instance_patch_states(InstanceIds=batch)
BatchCall ==
    /\ lam.pc = "loop"
    /\ lam.i < lam.n
    /\ lam' = [lam EXCEPT !.calls = Append(@, Batch(lam.managed, lam.i)),
                          !.i = @ + BatchSize]
    /\ UNCHANGED <<variant, unit, aggVars>>

\* range(0, len(managed_instances), batch_size) exhausted
BatchReturn ==
    /\ lam.pc = "loop"
    /\ lam.i >= lam.n
    /\ lam' = [lam EXCEPT !.pc = "done"]
    /\ UNCHANGED <<variant, unit, aggVars>>

BatchNext == BatchEnter \/ ListManagedInstances \/ BatchCall \/ BatchReturn

BatchSpec == BatchInit /\ [][BatchNext]_vars

(***************************************************************************)
(* GroupSpec: the patch-group stage of a unit on its own, with listings of *)
(* several groups.  The unit starts where the stage starts: authenticated, *)
(* one running instance in the inventory, nothing in the registry, one     *)
(* UNMANAGED row in the instance table.                                    *)
(***************************************************************************)
\* longest patch-group listing of GroupSpec
MaxMappings == 2

WideGroupNames == {"g1", "g2"}

WideGroupListings ==
    Listings([name : WideGroupNames, raises : BOOLEAN, count : Counts], MaxMappings)

\* the unit when it reaches the patch-group stage
BeforeGroups(v, a, r) ==
    LET L0 == GetClients(v, InitUnit(a, r), "ok", "ok")
        L1 == GetAllEc2Instances(v, L0, Whole(<<[id |-> "i1", state |-> "running"]>>))
        L2 == GetManagedInstances(v, L1, Whole(<<>>))
        L3 == IF v = "final"
              THEN GetPatchDetails(GetComplianceSummaries(L2, Whole(<<>>)),
                                   [i \in InstanceIds |->
                                       [kind |-> "empty", installed |-> 0,
                                        missing |-> 0, failed |-> 0]])
              ELSE GetPatchStates(L2, Whole(<<>>))
    IN  AddUnmanagedInstances(v, L3)

GroupInit ==
    /\ variant \in Variants
    /\ unit = BeforeGroups(variant, AccountName(Accounts[1]), Regions[1])
    /\ AggIdle
    /\ lam = IdleLam

FetchGroupsWide ==
    /\ unit.pc = "groups"
    /\ \E resp \in WideGroupListings : unit' = GetPatchGroups(variant, unit, resp)
    /\ UNCHANGED <<variant, aggVars, lam>>

GroupNext == FetchGroupsWide \/ FetchPatches

GroupSpec == GroupInit /\ [][GroupNext]_vars

(***************************************************************************)
(* DedupSpec: the Available Patches tab.  fetch_all_data has returned for  *)
(* one account and two regions; each unit has one unmanaged instance and   *)
(* its own catalog listing; the tab shows the patches distinct by id.      *)
(***************************************************************************)
\* longest catalog listing of DedupSpec
MaxCatalog == 2

\* catalog entries of DedupSpec: two patches may share a severity, and two
\* regions may report one patch with different severities
CatalogItems == [id : PatchIds, severity : {"Critical", "Medium"}]

CatalogListings == Listings(CatalogItems, MaxCatalog)

DedupUnits == {<<Accounts[1], Regions[j]>> : j \in 1..Len(Regions)}

DedupEnv(pl) ==
    [ssmClient |-> "ok", ec2Client |-> "ok",
     ec2 |-> Whole(<<[id |-> "i1", state |-> "running"]>>),
     ssm |-> Whole(<<>>), states |-> Whole(<<>>), summaries |-> Whole(<<>>),
     detail |-> [i \in InstanceIds |->
                   [kind |-> "empty", installed |-> 0, missing |-> 0, failed |-> 0]],
     groups |-> Whole(<<>>), patches |-> pl]

\* a reduction that drops nothing
KeepAll(rows) == rows

\* DataFrame.drop_duplicates(subset=['Patch ID']): the first row of every id
DropDuplicates(rows) ==
    LET first == {i \in 1..Len(rows) : \A j \in 1..(i - 1) : rows[j].pid # rows[i].pid}
        F[i \in 0..Len(rows)] ==
            IF i = 0 THEN <<>>
            ELSE IF i \in first THEN Append(F[i - 1], rows[i]) ELSE F[i - 1]
    IN  F[Len(rows)]

\* unique_patches[display_cols]: the columns the tab keeps
DisplayCols(rows) == [i \in 1..Len(rows) |-> [pid |-> rows[i].pid, sev |-> rows[i].sev]]

\* sort_values('Severity', ascending=False).reset_index(drop=True): every
\* order of the rows with the Severity strings descending; the default sort
\* of pandas promises no order among rows of equal Severity
SortValues(rows) ==
    LET n == Len(rows)
        orders == {p \in [1..n -> 1..n] :
                      /\ \A i \in 1..n : \E j \in 1..n : p[j] = i
                      /\ \A i \in 1..n : \A j \in (i + 1)..n :
                            SeverityRank(rows[p[i]].sev) >= SeverityRank(rows[p[j]].sev)}
    IN  {[i \in 1..n |-> rows[p[i]]] : p \in orders}

DedupInit ==
    /\ variant = "final"
    /\ unit = InitUnit(AccountName(Accounts[1]), Regions[1])
    /\ account_ids = <<Accounts[1]>>
    /\ regions = Regions
    /\ \E pl \in [DedupUnits -> CatalogListings], first \in DedupUnits :
          LET second == CHOOSE u \in DedupUnits : u # first
              res == [u \in AllUnits |->
                         IF u \in DedupUnits
                         THEN FetchAccountRegionData(variant, AccountName(u[1]), u[2], DedupEnv(pl[u]))
                         ELSE InitUnit(AccountName(u[1]), u[2])]
          IN  /\ fut = [u \in AllUnits |-> IF u \in DedupUnits THEN "finished" ELSE "none"]
              /\ result = res
              /\ all_inst = Extend(res[first].instances, res[second].instances)
              /\ all_grp = Extend(res[first].groups, res[second].groups)
              /\ all_pat = Extend(res[first].patches, res[second].patches)
              /\ all_err = Extend(res[first].errors, res[second].errors)
    /\ handled = DedupUnits
    /\ done = Cardinality(DedupUnits)
    /\ aggPc = "returned"
    /\ lam = IdleLam
    /\ unique_patches = <<>>

\* tab3 with a non-empty patch table
ShowPatches ==
    /\ aggPc = "returned"
    /\ all_pat # <<>>
    /\ unique_patches' \in SortValues(DisplayCols(DropDuplicates(all_pat)))
    /\ aggPc' = "shown"
    /\ UNCHANGED <<variant, unit, account_ids, regions, fut, result, handled,
                   all_inst, all_grp, all_pat, all_err, done, lam>>

\* tab3 with an empty patch table: "No patch data available"
ShowNoPatches ==
    /\ aggPc = "returned"
    /\ all_pat = <<>>
    /\ aggPc' = "shown"
    /\ UNCHANGED <<variant, unit, account_ids, regions, fut, result, handled,
                   all_inst, all_grp, all_pat, all_err, done, lam, unique_patches>>

DedupNext == ShowPatches \/ ShowNoPatches

DedupSpec == DedupInit /\ [][DedupNext]_vars

(***************************************************************************)
(* Helpers of the properties.                                              *)
(***************************************************************************)
Range(seq) == {seq[i] : i \in 1..Len(seq)}

Count(seq, x) == Cardinality({i \in 1..Len(seq) : seq[i] = x})

RowCount(rows, id) == Cardinality({i \in 1..Len(rows) : rows[i].id = id})

RECURSIVE Sum(_, _)
Sum(f, S) ==
    IF S = {} THEN 0
    ELSE LET x == CHOOSE y \in S : TRUE IN f[x] + Sum(f, S \ {x})

CeilDiv(n, d) == (n + d - 1) \div d

TaggedWith(seq, u) == SelectSeq(seq, LAMBDA x : x.acct = AccountName(u[1]) /\ x.rgn = u[2])

HasError(L, what) == \E i \in 1..Len(L.errors) : L.errors[i].what = what

Called(L, api) == \E i \in 1..Len(L.calls) : L.calls[i].api = api

AuthFailed(u) == fut[u] = "finished" /\ HasError(result[u], "auth")

Succeeded(u) ==
    fut[u] = "finished" /\ ~HasError(result[u], "auth") /\ ~HasError(result[u], "unexpected")

Finished == {u \in Units : fut[u] = "finished"}

Raised == {u \in Units : fut[u] = "raised"}

\* the listing a unit issues for each data category
ListingApis(v) ==
    {"describe_instances", "describe_instance_information",
     IF v = "final" THEN "list_resource_compliance_summaries"
                    ELSE "describe_instance_patch_states",
     "describe_patch_groups", "describe_available_patches"}

\* position of a sub-fetch, and of a listing, in the unit
StageOfFetch(f) ==
    CASE f = "ec2" -> 1
      [] f = "ssm" -> 2
      [] f \in {"patch_states", "summaries"} -> 3
      [] f = "details" -> 4
      [] f = "groups" -> 5
      [] OTHER -> 6

StageOfApi(api) ==
    CASE api = "describe_instances" -> 1
      [] api = "describe_instance_information" -> 2
      [] api \in {"describe_instance_patch_states",
                  "list_resource_compliance_summaries"} -> 3
      [] api = "describe_patch_groups" -> 5
      [] OTHER -> 6

(***************************************************************************)
(* FixedGroupSpec: the unit of Spec, every stage answered as in Spec except *)
(* the patch-group calls, which always get the same answer: one mapping g1  *)
(* whose state call returns 1 instance.                                     *)
(***************************************************************************)
FixedGroupAnswer == Whole(<<[name |-> "g1", raises |-> FALSE, count |-> 1]>>)

FetchGroupsFixed ==
    /\ unit.pc = "groups"
    /\ unit' = GetPatchGroups(variant, unit, FixedGroupAnswer)
    /\ UNCHANGED <<variant, aggVars, lam>>

FixedGroupNext ==
    \/ Authenticate
    \/ FetchInstances
    \/ FetchManaged
    \/ FetchPatchStates
    \/ FetchSummaries
    \/ FetchDetails
    \/ AddUnmanaged
    \/ FetchGroupsFixed
    \/ FetchPatches

FixedGroupSpec == Init /\ [][FixedGroupNext]_vars

(***************************************************************************)
(* PoolSpec: the thread pool of fetch_all_data with more units than         *)
(* workers.  Accounts are numbered 1..MaxPoolAccounts; the units are        *)
(* submitted one by one in the order of the two loops, the pool's queue is  *)
(* first in, first out, and a unit that has started either ends (it returns *)
(* or raises) or keeps its worker.  The as_completed loop runs in the       *)
(* submitting thread and takes no part in the scheduling.                   *)
(***************************************************************************)
MaxPoolAccounts == 6

PoolAccounts == [i \in 1..MaxPoolAccounts |-> i]

PoolAllUnits == {<<PoolAccounts[i], Regions[j]>> : i \in 1..MaxPoolAccounts, j \in 1..Len(Regions)}

Queued == {k \in 1..(Len(account_ids) * Len(regions)) : fut[UnitAt(k)] = "queued"}

PoolInit ==
    /\ variant = "final"
    /\ unit = InitUnit(AccountName(Accounts[1]), Regions[1])
    /\ account_ids \in {SubSeq(PoolAccounts, 1, n) : n \in 1..MaxPoolAccounts}
    /\ regions \in SubLists(Regions) \ {<<>>}
    /\ fut = [u \in PoolAllUnits |-> "none"]
    /\ result = [u \in PoolAllUnits |-> InitUnit(u[1], u[2])]
    /\ handled = {}
    /\ all_inst = <<>>
    /\ all_grp = <<>>
    /\ all_pat = <<>>
    /\ all_err = <<>>
    /\ done = 0
    /\ aggPc = "submit"
    /\ lam = IdleLam
    /\ unique_patches = <<>>

\* a pool that starts a queued unit whether or not a worker is free
PoolStartUnbounded ==
    /\ Queued # {}
    /\ fut' = [fut EXCEPT ![UnitAt(CHOOSE k \in Queued : \A j \in Queued : k <= j)] = "running"]
    /\ UNCHANGED <<variant, unit, account_ids, regions, result, handled,
                   all_inst, all_grp, all_pat, all_err, done, aggPc, lam, unique_patches>>

\* a free worker takes the unit at the head of the queue
PoolStart ==
    /\ Queued # {}
    /\ Cardinality(Running) < MaxWorkers
    /\ fut' = [fut EXCEPT ![UnitAt(CHOOSE k \in Queued : \A j \in Queued : k <= j)] = "running"]
    /\ UNCHANGED <<variant, unit, account_ids, regions, result, handled,
                   all_inst, all_grp, all_pat, all_err, done, aggPc, lam, unique_patches>>

\* the unit returns or raises; its worker is free again
PoolEnd(u) ==
    /\ fut[u] = "running"
    /\ fut' = [fut EXCEPT ![u] = "finished"]
    /\ UNCHANGED <<variant, unit, account_ids, regions, result, handled,
                   all_inst, all_grp, all_pat, all_err, done, aggPc, lam, unique_patches>>

PoolNext ==
    \/ SubmitUnit
    \/ PoolStart
    \/ \E u \in PoolAllUnits : PoolEnd(u)

\* an idle worker thread waits on the queue and takes the next unit; a unit
\* that has started need not ever end
PoolSpec == PoolInit /\ [][PoolNext]_vars /\ WF_vars(PoolStart)

(***************************************************************************)
(* ReporterSpec: collect_compliance_data of the two Lambda reporters, one   *)
(* step per (account, region) of its two loops.  lam.regions holds the      *)
(* region summaries written so far (total EC2, managed, not managed) and    *)
(* lam.org the organization totals.                                         *)
(***************************************************************************)
MaxEntities == 2

Reporters == {"completely_corrected", "final_corrected"}

PingStatuses == {"Online", "ConnectionLost"}

\* get_ops_summary: it raises, or returns Count aggregates by PingStatus
OpsSummaries ==
    [ok : BOOLEAN, content : SeqsUpTo([ping : PingStatuses, count : Counts], MaxEntities)]

\* describe_instance_information with the PingStatus of every instance
PingListings ==
    UNION {UNION {LET ids == SortedSeq(IdOrder, S)
                      items == [i \in 1..Len(ids) |-> [id |-> ids[i], ping |-> f[ids[i]]]]
                  IN  {[items |-> items, failAt |-> k] : k \in FailPoints(items)}
                  : f \in [S -> PingStatuses]}
           : S \in SUBSET InstanceIds}

RECURSIVE OnlineCount(_, _)
OnlineCount(content, i) ==
    IF i > Len(content) THEN 0
    ELSE (IF content[i].ping = "Online" THEN content[i].count ELSE 0)
         + OnlineCount(content, i + 1)

GetTotalEc2InstancesFromEc2Api(resp) ==
    LET visible == SelectSeq(resp.items, LAMBDA x : x.state \in StateFilter)
    IN  IF Raises(visible, resp.failAt) THEN 0 ELSE Len(visible)

ManagementSummary(total, managed) ==
    [total |-> total, managed |-> managed, not_managed |-> Max(0, total - managed)]

\* the outer handler (session.client('ssm') raised) returns all zeros,
\* dropping the total already counted
GetInstanceManagementSummaryFallback(ec2, ssm, clientOk) ==
    LET seen == Fetched(ssm.items, ssm.failAt)
        online == SelectSeq(seen, LAMBDA x : x.ping = "Online")
    IN  IF clientOk
        THEN ManagementSummary(GetTotalEc2InstancesFromEc2Api(ec2), Len(online))
        ELSE [total |-> 0, managed |-> 0, not_managed |-> 0]

\* explorerClientOk, fallbackClientOk: whether session.client('ssm') returns
\* in this function and in the fallback it calls
GetInstanceManagementSummaryFromExplorer(ops, ec2, ssm, explorerClientOk, fallbackClientOk) ==
    IF explorerClientOk /\ ops.ok
    THEN ManagementSummary(GetTotalEc2InstancesFromEc2Api(ec2), OnlineCount(ops.content, 1))
    ELSE GetInstanceManagementSummaryFallback(ec2, ssm, fallbackClientOk)

GetEc2Instances(resp) ==
    LET visible == SelectSeq(resp.items, LAMBDA x : x.state \in StateFilter)
    IN  IF Raises(visible, resp.failAt) THEN <<>>
        ELSE [i \in 1..Len(visible) |-> visible[i].id]

GetSsmManagedInstances(resp) ==
    LET online == SelectSeq(resp.items, LAMBDA x : x.ping = "Online")
    IN  IF Raises(resp.items, resp.failAt) THEN <<>>
        ELSE [i \in 1..Len(online) |-> online[i].id]

\* final_corrected: total, managed and unmanaged of one region
ContextSummary(ec2, ssm) ==
    LET ec2_instances == GetEc2Instances(ec2)
        ssm_instances == GetSsmManagedInstances(ssm)
        managed_ec2_instances ==
            SelectSeq(ssm_instances, LAMBDA x : \E i \in 1..Len(ec2_instances) : ec2_instances[i] = x)
    IN  [total |-> Len(ec2_instances),
         managed |-> Len(managed_ec2_instances),
         not_managed |-> Len(ec2_instances) - Len(managed_ec2_instances)]

\* the summaries a region can get, over every answer of get_ops_summary,
\* describe_instances and describe_instance_information
RegionSummaries(rep) ==
    IF rep = "completely_corrected"
    THEN {GetInstanceManagementSummaryFromExplorer(ops, ec2, ssm, c1, c2) :
              ops \in OpsSummaries, ec2 \in Ec2Listings, ssm \in PingListings,
              c1 \in BOOLEAN, c2 \in BOOLEAN}
    ELSE {ContextSummary(ec2, ssm) : ec2 \in Ec2Listings, ssm \in PingListings}

ExplorerSummaries == RegionSummaries("completely_corrected")

ContextSummaries == RegionSummaries("final_corrected")

\* one iteration of `for region in self.regions`; s is the summary computed
\* from the answers of the region
CollectRegion(L, sessionOk, s) ==
    LET k == L.k + 1
        a == L.accounts[((k - 1) \div Len(Regions)) + 1]
        r == Regions[((k - 1) % Len(Regions)) + 1]
    IN  IF ~sessionOk \/ s.total = 0
        THEN [L EXCEPT !.k = k]
        ELSE [L EXCEPT !.k = k,
                       !.regions = Append(@, [acct |-> a, rgn |-> r, total |-> s.total,
                                              managed |-> s.managed,
                                              not_managed |-> s.not_managed]),
                       !.org = [total |-> @.total + s.total,
                                managed |-> @.managed + s.managed,
                                not_managed |-> @.not_managed + s.not_managed]]

ReporterInit ==
    /\ variant = "final"
    /\ unit = InitUnit(AccountName(Accounts[1]), Regions[1])
    /\ AggIdle
    /\ \E rep \in Reporters, accts \in SubLists(Accounts) :
          lam = [pc |-> "collect", reporter |-> rep, accounts |-> accts, k |-> 0,
                 regions |-> <<>>,
                 org |-> [total |-> 0, managed |-> 0, not_managed |-> 0]]

ReportRegion ==
    /\ lam.pc = "collect"
    /\ lam.k < Len(lam.accounts) * Len(Regions)
    /\ \E sessionOk \in BOOLEAN,
          s \in (IF lam.reporter = "completely_corrected"
                 THEN ExplorerSummaries ELSE ContextSummaries) :
          lam' = CollectRegion(lam, sessionOk, s)
    /\ UNCHANGED <<variant, unit, aggVars>>

ReporterReturn ==
    /\ lam.pc = "collect"
    /\ lam.k = Len(lam.accounts) * Len(Regions)
    /\ lam' = [lam EXCEPT !.pc = "returned"]
    /\ UNCHANGED <<variant, unit, aggVars>>

ReporterNext == ReportRegion \/ ReporterReturn

ReporterSpec == ReporterInit /\ [][ReporterNext]_vars

(***************************************************************************)
(* Properties.                                                             *)
(***************************************************************************)

\* C1: completeness. When the unit has returned, its instance table holds
\* exactly one row for every instance of the inventory: as many rows as
\* inventory entries, none missing, none twice.
Completeness ==
    unit.pc = "done" =>
        /\ Len(unit.instances) = Len(unit.instance_map)
        /\ \A id \in MapKeys(unit.instance_map) : RowCount(unit.instances, id) = 1

\* C2: conservative fallback. Every row of an instance that the inventory
\* returned and the registry did not is UNMANAGED with all counts zero,
\* whatever the patch-state or compliance-summary listing said of it.
ConservativeFallback ==
    unit.pc = "done" =>
        \A i \in 1..Len(unit.instances) :
            LET r == unit.instances[i]
            IN  r.id \in unit.inventory_seen \ unit.registry_seen =>
                    /\ r.status = "UNMANAGED"
                    /\ r.installed = 0 /\ r.missing = 0 /\ r.failed = 0

\* C3: data-inconsistency fallback. An inventory instance that the registry
\* lists and for which the patch-state fetch returned no record has a row,
\* and that row is UNMANAGED.
InconsistencyFallback ==
    unit.pc = "done" =>
        \A id \in (unit.inventory_seen \cap unit.registry_seen) \ unit.states_seen :
            /\ RowCount(unit.instances, id) >= 1
            /\ \A i \in 1..Len(unit.instances) :
                  unit.instances[i].id = id => unit.instances[i].status = "UNMANAGED"

\* C4: classification rule. Every row that carries the counts of a
\* patch-state record is classified by its failed and missing counts alone:
\* failed > 0 is NON_COMPLIANT_FAILED, else missing > 0 is
\* NON_COMPLIANT_MISSING, else COMPLIANT.
ClassificationRule ==
    unit.pc = "done" =>
        \A i \in 1..Len(unit.instances) :
            LET r == unit.instances[i]
            IN  (r.counted /\ r.status # "UNMANAGED") =>
                    r.status = Classify(r.failed, r.missing)

\* C5: unit isolation. When the aggregation has returned and some unit
\* failed to authenticate, every other finished unit has its rows in the
\* aggregate and the aggregate has as many rows as the inventories of the
\* units that authenticated hold instances.
UnitIsolation ==
    (aggPc = "returned" /\ \E u \in Units : AuthFailed(u)) =>
        /\ \A v \in Units :
              Succeeded(v) => TaggedWith(all_inst, v) = result[v].instances
        /\ Len(all_inst) =
              Sum([v \in Units |-> IF Succeeded(v) THEN Len(result[v].instance_map) ELSE 0],
                  Units)

\* C6: aggregator boundary. A unit whose task raised leaves exactly one
\* error entry in the aggregate, tagged with its account and region, and
\* nothing else; every finished unit that was collected has all its lists in
\* the aggregate; the aggregation returns only after every unit was
\* collected.
AggregatorBoundary ==
    /\ \A u \in handled \cap Raised :
          /\ Cardinality({i \in 1..Len(all_err) :
                 all_err[i] = [acct |-> AccountName(u[1]), rgn |-> u[2], what |-> "exception"]}) = 1
          /\ Len(TaggedWith(all_err, u)) = 1
          /\ TaggedWith(all_inst, u) = <<>>
    /\ Len(all_err) = Sum([u \in Units |-> Len(TaggedWith(all_err, u))], Units)
    /\ \A v \in handled \cap Finished :
          /\ TaggedWith(all_inst, v) = result[v].instances
          /\ TaggedWith(all_grp, v) = result[v].groups
          /\ TaggedWith(all_pat, v) = result[v].patches
          /\ TaggedWith(all_err, v) = result[v].errors
    /\ aggPc = "returned" => handled = Units

\* C6 witness: the aggregation returned although one unit raised, and another
\* unit's rows are in the aggregate.
AggregatorBoundaryWitness ==
    /\ aggPc = "returned"
    /\ \E u \in Units : fut[u] = "raised"
    /\ \E v \in Units : fut[v] = "finished" /\ result[v].instances # <<>>
    /\ all_inst # <<>>

\* C7: order-independent aggregation. When the aggregation has returned,
\* every row, group, patch and error occurs in the aggregate as often as it
\* occurs in the units' results taken together (plus one exception entry per
\* raised unit), whatever the order of completion was.
OrderIndependentAggregation ==
    aggPc = "returned" =>
        /\ \A x \in Range(all_inst) \cup UNION {Range(result[u].instances) : u \in Finished} :
              Count(all_inst, x) = Sum([u \in Units |->
                  IF u \in Finished THEN Count(result[u].instances, x) ELSE 0], Units)
        /\ \A x \in Range(all_grp) \cup UNION {Range(result[u].groups) : u \in Finished} :
              Count(all_grp, x) = Sum([u \in Units |->
                  IF u \in Finished THEN Count(result[u].groups, x) ELSE 0], Units)
        /\ \A x \in Range(all_pat) \cup UNION {Range(result[u].patches) : u \in Finished} :
              Count(all_pat, x) = Sum([u \in Units |->
                  IF u \in Finished THEN Count(result[u].patches, x) ELSE 0], Units)
        /\ \A x \in Range(all_err) \cup UNION {Range(result[u].errors) : u \in Finished} :
              Count(all_err, x) = Sum([u \in Units |->
                  IF u \in Finished THEN Count(result[u].errors, x)
                  ELSE IF x = [acct |-> AccountName(u[1]), rgn |-> u[2], what |-> "exception"]
                       THEN 1 ELSE 0], Units)

\* C7 witness: the aggregation returned with the rows of a later-submitted
\* unit ahead of the rows of an earlier-submitted one.
OrderIndependentAggregationWitness ==
    /\ aggPc = "returned"
    /\ Len(all_inst) >= 2
    /\ all_inst[1].acct = AccountName(Accounts[2])
    /\ \E i \in 2..Len(all_inst) : all_inst[i].acct = AccountName(Accounts[1])

\* C8: sub-fetch isolation. When an authenticated unit has returned, the
\* listing of every data category that comes after a failed sub-fetch was
\* still issued, every failed sub-fetch left exactly one warning, and no
\* other warning exists.
SubFetchIsolation ==
    (unit.pc = "done" /\ ~HasError(unit, "auth") /\ ~HasError(unit, "unexpected")) =>
        /\ \A f \in unit.failed_fetches :
              \A api \in ListingApis(variant) :
                  StageOfApi(api) > StageOfFetch(f) => Called(unit, api)
        /\ \A f \in unit.failed_fetches :
              Cardinality({i \in 1..Len(unit.errors) : unit.errors[i].what = f}) = 1
        /\ \A i \in 1..Len(unit.errors) : unit.errors[i].what \in unit.failed_fetches

\* C9: stuck-unit bound. Once the units are submitted the aggregation
\* eventually returns, also when a unit never completes.
StuckUnitBound == (aggPc = "collect") ~> (aggPc = "returned")

\* C10: batching bound. For n identifiers the patch-state loop of a Lambda
\* reporter, when it runs (the client was created and the reporter's own
\* registry listing did not raise), issues exactly ceil(n/100) calls of at
\* most 100 identifiers each.
BatchingBound ==
    (lam.pc = "done" /\ lam.client # "raises" /\ lam.listed # "raises") =>
        /\ Len(lam.calls) = CeilDiv(lam.n, 100)
        /\ \A i \in 1..Len(lam.calls) : Len(lam.calls[i]) <= 100

\* C11: inventory state filter. The inventory of the unit and every row of
\* its instance table belong to instances that are running or stopped.
InventoryStateFilter ==
    /\ \A i \in 1..Len(unit.instance_map) : unit.instance_map[i].state \in StateFilter
    /\ \A i \in 1..Len(unit.instances) : unit.instances[i].state \in StateFilter

\* C12: group filtering. No patch-group summary with an instance count of 0
\* is in the group list a unit returned or in the aggregate group list.
GroupFiltering ==
    /\ \A u \in AllUnits :
          \A i \in 1..Len(result[u].groups) : result[u].groups[i].count > 0
    /\ \A i \in 1..Len(all_grp) : all_grp[i].count > 0

\* C12 witness: the aggregation returned, a collected unit was answered an
\* instance count of 0 for a patch group, and another unit's group is in the
\* aggregate.
GroupFilteringWitness ==
    /\ aggPc = "returned"
    /\ \E u \in Finished :
          \E i \in 1..Len(result[u].groups_seen) :
              ~result[u].groups_seen[i].raises /\ result[u].groups_seen[i].count = 0
    /\ all_grp # <<>>

\* C13: orphan drop. Every row of the instance table belongs to an instance
\* the inventory returned: an identifier known only to the registry, the
\* patch-state listing or the compliance-summary listing has no row.
OrphanDrop ==
    \A i \in 1..Len(unit.instances) : unit.instances[i].id \in unit.inventory_seen

\* C13 witness: the unit has returned rows although the registry and the
\* patch-state (or summary) listing named an identifier outside the inventory.
OrphanDropWitness ==
    /\ unit.pc = "done"
    /\ unit.registry_seen \ unit.inventory_seen # {}
    /\ unit.states_seen \ unit.inventory_seen # {}
    /\ unit.instances # <<>>

\* C14: classification domain. When the unit has returned, the status of
\* every row of the instance table is COMPLIANT, NON_COMPLIANT_MISSING, NON_COMPLIANT_FAILED or UNMANAGED.
ClassificationDomain ==
    unit.pc = "done" =>
        \A i \in 1..Len(unit.instances) :
            unit.instances[i].status \in
                {"COMPLIANT", "NON_COMPLIANT_MISSING", "NON_COMPLIANT_FAILED", "UNMANAGED"}

\* C15: record schema. When the unit has returned, every row of the instance
\* table carries the installed, missing and failed counts, whatever the
\* per-instance patch-state call answered.
RecordSchema ==
    unit.pc = "done" => \A i \in 1..Len(unit.instances) : unit.instances[i].counted

\* C16: authentication failure. A unit that could not get its clients has
\* returned, has issued no call besides the two role assumptions, holds no
\* instance row, no patch group and no patch, and holds exactly one warning.
AuthenticationFailure ==
    HasError(unit, "auth") =>
        /\ unit.pc = "done"
        /\ \A i \in 1..Len(unit.calls) : unit.calls[i].api = "assume_role"
        /\ unit.instances = <<>> /\ unit.groups = <<>> /\ unit.patches = <<>>
        /\ unit.instance_map = <<>>
        /\ Len(unit.errors) = 1

\* C16 witness: a unit returned after failing to authenticate.
AuthenticationFailureWitness ==
    unit.pc = "done" /\ HasError(unit, "auth") /\ Len(unit.calls) = 2

\* C17: inventory listing failure. When fetch_account_region_data has
\* returned after its inventory listing raised (on any page), the inventory it
\* worked with is empty, exactly one warning names the inventory, and the
\* registry, summary, patch-group and catalog listings were issued.
InventoryListingFailure ==
    (variant = "final" /\ unit.pc = "done" /\ "ec2" \in unit.failed_fetches) =>
        /\ unit.instance_map = <<>>
        /\ Cardinality({i \in 1..Len(unit.errors) : unit.errors[i].what = "ec2"}) = 1
        /\ \A api \in ListingApis(variant) \ {"describe_instances"} : Called(unit, api)

\* the group summaries a unit owes for the answers it got: one for every
\* group whose state call returned an instance count above 0
Reported(L) ==
    LET kept == SelectSeq(L.groups_seen, LAMBDA g : ~g.raises /\ g.count > 0)
    IN  [i \in 1..Len(kept) |->
            [acct |-> L.acct, rgn |-> L.rgn, name |-> kept[i].name, count |-> kept[i].count]]

\* C18: per-group failure. After the patch-group stage the unit reports
\* every group whose state call returned a count above 0, whichever other
\* groups' calls raised, and a raising group leaves no warning: the unit holds
\* a patch-group warning only when the listing itself failed.
PerGroupFailure ==
    unit.pc \in {"patches", "done"} =>
        /\ unit.groups = Reported(unit)
        /\ HasError(unit, "groups") <=> "groups" \in unit.failed_fetches

\* C18 witness: the state call of one group raised, a later group with a
\* count above 0 is reported, and the unit returned without a patch-group
\* warning.
PerGroupFailureWitness ==
    /\ unit.pc = "done"
    /\ \E i \in 1..Len(unit.groups_seen) : \E j \in (i + 1)..Len(unit.groups_seen) :
          /\ unit.groups_seen[i].raises
          /\ ~unit.groups_seen[j].raises /\ unit.groups_seen[j].count > 0
          /\ \E k \in 1..Len(unit.groups) : unit.groups[k].name = unit.groups_seen[j].name
    /\ ~HasError(unit, "groups")

\* C19: error tagging. Every entry of the aggregate error list carries the
\* account and region of a collected unit that produced it: either that unit
\* returned the entry in its own error list, or the unit raised and the entry
\* is the one the aggregator made for it; and every entry a unit returned
\* carries that unit's account and region.
ErrorTagging ==
    /\ \A i \in 1..Len(all_err) :
          \E u \in handled :
              /\ all_err[i].acct = AccountName(u[1]) /\ all_err[i].rgn = u[2]
              /\ IF fut[u] = "raised"
                 THEN all_err[i].what = "exception"
                 ELSE all_err[i] \in Range(result[u].errors)
    /\ \A u \in Finished :
          \A i \in 1..Len(result[u].errors) :
              result[u].errors[i].acct = AccountName(u[1]) /\ result[u].errors[i].rgn = u[2]

\* C19 witness: the aggregation returned with the warning of a unit that
\* failed to authenticate and the entry of another unit that raised.
ErrorTaggingWitness ==
    /\ aggPc = "returned"
    /\ \E u \in Units, v \in Units :
          /\ u # v
          /\ AuthFailed(u) /\ fut[v] = "raised"
          /\ \E i \in 1..Len(all_err) : all_err[i] = [acct |-> AccountName(u[1]), rgn |-> u[2], what |-> "auth"]
          /\ \E i \in 1..Len(all_err) : all_err[i] = [acct |-> AccountName(v[1]), rgn |-> v[2], what |-> "exception"]

\* C20: deduplication boundary. When the Available Patches tab has been
\* built, the distinct-by-id collection it shows is no longer than the raw
\* catalog collection, holds only patches of the raw collection, and holds
\* exactly one row for every patch identifier of the raw collection.
DeduplicationBoundary ==
    aggPc = "shown" =>
        /\ Len(unique_patches) <= Len(all_pat)
        /\ \A i \in 1..Len(unique_patches) :
              \E j \in 1..Len(all_pat) :
                  /\ all_pat[j].pid = unique_patches[i].pid
                  /\ all_pat[j].sev = unique_patches[i].sev
        /\ \A pid \in {all_pat[i].pid : i \in 1..Len(all_pat)} :
              Cardinality({i \in 1..Len(unique_patches) : unique_patches[i].pid = pid}) = 1

\* C20 witness: the raw collection held the same patch identifier from two
\* different units, and the tab shows fewer rows than the raw collection.
DeduplicationBoundaryWitness ==
    /\ aggPc = "shown"
    /\ \E i \in 1..Len(all_pat), j \in 1..Len(all_pat) :
          /\ i < j
          /\ all_pat[i].pid = all_pat[j].pid
          /\ all_pat[i].rgn # all_pat[j].rgn
    /\ Len(unique_patches) < Len(all_pat)
    /\ Len(unique_patches) >= 2

\* C21: unit fan-out. While the pairs are being submitted only pairs of the
\* Cartesian product of the selected accounts and regions have a future;
\* once the submission loop is over there is exactly one future for each
\* pair of the product and none for any other pair.  With an empty account
\* list or an empty region list nothing is ever submitted and every
\* accumulator, the error list included, stays empty.
UnitFanOut ==
    LET WithFuture == {u \in AllUnits : fut[u] # "none"}
        Product == {u \in AllUnits : u[1] \in Range(account_ids) /\ u[2] \in Range(regions)}
    IN  /\ WithFuture \subseteq Product
        /\ aggPc \in {"collect", "returned"} =>
            /\ WithFuture = Product
            /\ Cardinality(WithFuture) = Len(account_ids) * Len(regions)
        /\ (account_ids = <<>> \/ regions = <<>>) =>
            /\ WithFuture = {}
            /\ aggPc # "submit"
            /\ all_inst = <<>> /\ all_grp = <<>> /\ all_pat = <<>> /\ all_err = <<>>
            /\ done = 0

UnitFanOutWitness ==
    /\ aggPc = "returned"
    /\ Len(account_ids) = 2 /\ Len(regions) = 2
    /\ Cardinality({u \in AllUnits : fut[u] # "none"}) = 4

\* C22: page-overlap tie-break. When the unit has returned, an instance
\* whose identifier occurred in the patch-state or compliance-summary
\* response, on one page or on several, has at most one row in the
\* instance table, and that row carries the values of the last occurrence
\* fetched: occurrences are never accumulated into several rows.
PageOverlapTieBreak ==
    unit.pc = "done" =>
        \A id \in unit.states_seen :
            LET f == unit.states_fetched
                last == f[CHOOSE i \in 1..Len(f) :
                            f[i].id = id /\ \A j \in (i + 1)..Len(f) : f[j].id # id]
                rows == unit.instances
            IN  /\ RowCount(rows, id) <= 1
                /\ \A k \in 1..Len(rows) :
                      rows[k].id = id =>
                          IF variant = "pc3"
                          THEN /\ rows[k].status = Classify(last.failed, last.missing)
                               /\ rows[k].installed = last.installed
                               /\ rows[k].missing = last.missing
                               /\ rows[k].failed = last.failed
                          ELSE rows[k].status = last.status

\* C23: stage ordering. In the calls a unit has issued so far, every
\* patch-state query (the listing, the compliance-summary listing or a
\* per-instance query) comes after the registry listing, and the registry
\* listing comes after the inventory listing; the rows of unmanaged
\* instances are only added once the patch-state stage is over.
StageOrdering ==
    LET c == unit.calls
        PatchApis == {"describe_instance_patch_states", "list_resource_compliance_summaries"}
    IN  /\ \A k \in 1..Len(c) :
              c[k].api \in PatchApis =>
                  \E j \in 1..(k - 1) :
                      /\ c[j].api = "describe_instance_information"
                      /\ \E i \in 1..(j - 1) : c[i].api = "describe_instances"
        /\ \A k \in 1..Len(c) :
              c[k].api = "describe_instance_information" =>
                  /\ \E i \in 1..(k - 1) : c[i].api = "describe_instances"
                  /\ \A j \in 1..(k - 1) : c[j].api \notin PatchApis
        /\ (\E i \in 1..Len(unit.instances) : unit.instances[i].status = "UNMANAGED") =>
              unit.pc \in {"groups", "patches", "done"}

StageOrderingWitness ==
    /\ unit.pc = "done"
    /\ \E k \in 1..Len(unit.calls) :
          /\ unit.calls[k].api = "describe_instance_patch_states"
          /\ unit.calls[k].ids # <<>>
    /\ \E i \in 1..Len(unit.instances) : unit.instances[i].status = "UNMANAGED"

\* C24: query scoping. Every per-instance patch-state query a unit issues
\* names only identifiers that the inventory listing and the registry
\* listing both returned.
QueryScoping ==
    \A k \in 1..Len(unit.calls) :
        unit.calls[k].api = "describe_instance_patch_states" =>
            Range(unit.calls[k].ids) \subseteq (unit.inventory_seen \cap unit.registry_seen)

\* C25: patch-group independence. With the patch-group calls answered the
\* same way in every run (one group g1 holding 1 instance), a unit that
\* authenticated holds, after its patch-group stage, the same group
\* summaries whatever the inventory, registry and patch-state stages
\* returned: the one summary of g1.
PatchGroupIndependence ==
    (unit.pc \in {"patches", "done"} /\ ~HasError(unit, "auth")
        /\ ~HasError(unit, "unexpected")) =>
        unit.groups = <<[acct |-> unit.acct, rgn |-> unit.rgn, name |-> "g1", count |-> 1]>>

\* C26: serialized accumulation. A step that changes an accumulator (the
\* instance, group, patch or error list, or the progress counter) is the
\* completion step of exactly one unit that had ended and had not been
\* handled before, and it changes no unit's own data; a step in which a
\* unit writes its result writes that unit's result only, and leaves every
\* accumulator as it was.
SerializedAccumulation ==
    [][ /\ (<<all_inst, all_grp, all_pat, all_err, done>>' #
                <<all_inst, all_grp, all_pat, all_err, done>>) =>
            /\ \E u \in Units \ handled :
                  /\ fut[u] \in {"finished", "raised"}
                  /\ handled' = handled \cup {u}
            /\ done' = done + 1
            /\ result' = result
            /\ fut' = fut
        /\ \A u \in AllUnits :
              result'[u] # result[u] =>
                  /\ fut[u] = "running"
                  /\ \A w \in AllUnits \ {u} : result'[w] = result[w]
                  /\ <<all_inst, all_grp, all_pat, all_err, done, handled>>' =
                         <<all_inst, all_grp, all_pat, all_err, done, handled>>
      ]_vars

\* C26 witness: one unit has been handled while two others have ended and
\* wait for their completion step.
SerializedAccumulationWitness ==
    /\ aggPc = "collect"
    /\ Cardinality(handled) = 1
    /\ all_inst # <<>>
    /\ Cardinality({u \in Units \ handled : fut[u] \in {"finished", "raised"}}) >= 2

\* C28: progress signal. The counter of completed units is 0 until the
\* first completion, always equals the number of units handled so far
\* (ended with a result or with an exception alike), never exceeds the
\* number of submitted units and equals it once the aggregator has
\* returned; a step either leaves it alone or adds exactly one while one
\* more unit is handled.
ProgressSignal ==
    /\ [](/\ done = Cardinality(handled)
          /\ done <= Len(account_ids) * Len(regions)
          /\ aggPc \in {"clicked", "refresh", "submit"} => done = 0
          /\ aggPc = "returned" => done = Len(account_ids) * Len(regions))
    /\ [][ \/ done' = done
           \/ /\ done' = done + 1
              /\ Cardinality(handled') = Cardinality(handled) + 1 ]_vars

\* C28 witness: four units were submitted, one of them raised, and the
\* aggregator returned with the counter at 4.
ProgressSignalWitness ==
    /\ aggPc = "returned"
    /\ done = 4
    /\ \E u \in Units : fut[u] = "raised"
    /\ \E u \in Units : fut[u] = "finished"

\* C27: bounded pool. Whatever the number of submitted units, at most 10 of
\* them are executing at any time, and no submitted unit stays queued
\* forever while a worker stays free: again and again the unit has been
\* started or all 10 workers are busy.
BoundedPool ==
    /\ [](Cardinality({u \in PoolAllUnits : fut[u] = "running"}) <= 10)
    /\ \A u \in PoolAllUnits :
          []<>(fut[u] # "queued" \/ Cardinality({w \in PoolAllUnits : fut[w] = "running"}) >= 10)

\* C27 witness: 10 units are executing, an eleventh is submitted and waits.
BoundedPoolWitness ==
    /\ Cardinality({u \in PoolAllUnits : fut[u] = "running"}) = 10
    /\ \E u \in PoolAllUnits : fut[u] = "queued"

\* C29: managed-flag consistency. In every row of the instance table the
\* managed flag is False exactly when the classification is UNMANAGED, and
\* an UNMANAGED row has zero installed, missing and failed counts.
ManagedFlagConsistency ==
    \A i \in 1..Len(unit.instances) :
        LET r == unit.instances[i]
        IN  /\ r.managed = FALSE <=> r.status = "UNMANAGED"
            /\ r.status = "UNMANAGED" =>
                  r.installed = 0 /\ r.missing = 0 /\ r.failed = 0

\* C30: reporter count partition. In every region summary a Lambda reporter
\* has written, and in its organization totals, the managed count plus the
\* not-managed count equals the total EC2 count, the managed count does not
\* exceed the total and the not-managed count is not negative.
ReporterCountPartition ==
    LET Partitioned(s) ==
            /\ s.managed + s.not_managed = s.total
            /\ s.managed <= s.total
            /\ s.not_managed >= 0
    IN  /\ \A i \in 1..Len(lam.regions) : Partitioned(lam.regions[i])
        /\ Partitioned(lam.org)

====
